---- MODULE Spec2Model ----
(***************************************************************************)
(* The circuit breaker of go-circuit-breaker: the CircuitBreaker of        *)
(* src/unnamed/part_001 (lines 289-605), its options (src/breaker.go       *)
(* 218-281) and its default policies (src/bench_test.go 49-71).            *)
(*                                                                         *)
(* Every goroutine is a process of the model: the Execute callers, the     *)
(* rotation task renewFrame, the recovery timers waitHalfOpen and the      *)
(* caller of the teardown function.  A step of the model is one critical   *)
(* section of the code (one lock acquisition), or one atomic Store/Load.   *)
(* Time is not measured: a timer that is pending may fire at any later     *)
(* step.                                                                   *)
(***************************************************************************)
EXTENDS Integers, Sequences, FiniteSets, TLC

\* ------------------------------------------------------------------ bounds
\* Execute calls issued in one behaviour of Spec.
MaxCalls == 3
\* Execute calls issued in one behaviour of SpecSeq (one caller, in sequence).
SeqCalls == 13
\* Largest window capacity floor(windowRoll / windowFrame) that Init draws.
MaxFrames == 2
\* Execute calls issued in one behaviour of SpecLive.
LiveCalls == 2
\* Largest window capacity that InitLive draws.
LiveFrames == 1
\* Execute calls issued in one behaviour of SpecTrip.
TripCalls == 2
\* Largest window capacity that InitTrip draws.
TripFrames == 1
\* Execute calls issued in one behaviour of SpecPanic.
PanicCalls == 2
\* Largest window capacity that InitPanic draws.
PanicFrames == 1
\* Execute calls issued in one behaviour of SpecCount.
CountCalls == 4
\* Largest window capacity that InitCount draws.
CountFrames == 2
\* Execute calls issued in one behaviour of SpecDown.
DownCalls == 2
\* Largest window capacity that InitDown draws.
DownFrames == 1
\* Longest list of options passed to New in SpecNew.
MaxOpts == 2

PolicyTotal == 102

ProbeCalls == 2

ProbeFrames == 1

RaceCalls == 12

RaceFrames == 1


\* The goroutines that call Execute concurrently.  They are interchangeable:
\* a new call is made by the first of them that is not inside Execute.
Callers == {"c1", "c2"}

Before(d, c) == d = "c1" /\ c = "c2"

\* ------------------------------------------------------------------ types
Closed == "closed"
HalfOpen == "half-open"
Open == "open"

\* uint64 arithmetic wraps; the checker's integers are 32 bits wide, so the
\* wrap is modelled at 2^30 (no counter of the model comes near it unless a
\* subtraction goes below zero).
UintMod == 1073741824

Counts(t, f, s) == [Total |-> t, Fail |-> f, Success |-> s]

Zero == Counts(0, 0, 0)

AddCounts(a, b) ==
    Counts((a.Total + b.Total) % UintMod,
           (a.Fail + b.Fail) % UintMod,
           (a.Success + b.Success) % UintMod)

SubCounts(a, b) ==
    Counts((a.Total - b.Total) % UintMod,
           (a.Fail - b.Fail) % UintMod,
           (a.Success - b.Success) % UintMod)

Last(w) == w[Len(w)]

Front(w) == SubSeq(w, 1, Len(w) - 1)

RECURSIVE SumCounts(_)
SumCounts(w) == IF w = <<>> THEN Zero ELSE AddCounts(Head(w), SumCounts(Tail(w)))

\* ------------------------------------------------------------------ policies
\* float64 arithmetic of defaultCanTrip. A positive binary64 value is a
\* record [sig, exp]: sig is its 53-bit significand written in limbs of 13
\* bits, most significant first (sig[1] = 1 is the leading bit, four limbs of
\* fraction follow), and exp is the exponent of the leading bit.
Limb == 8192

RECURSIVE Pow2(_)
Pow2(k) == IF k = 0 THEN 1 ELSE 2 * Pow2(k - 1)

RECURSIVE Shift(_, _)
Shift(n, d) == IF n >= d THEN 0 ELSE 1 + Shift(2 * n, d)

RECURSIVE DivLimbs(_, _, _)
DivLimbs(r, d, n) ==
    IF n = 0 THEN <<>>
    ELSE <<(r * Limb) \div d>> \o DivLimbs((r * Limb) % d, d, n - 1)

RECURSIVE DivRem(_, _, _)
DivRem(r, d, n) == IF n = 0 THEN r ELSE DivRem((r * Limb) % d, d, n - 1)

RECURSIVE AddOne(_)
AddOne(sig) ==
    IF Len(sig) = 1 THEN <<sig[1] + 1>>
    ELSE IF Last(sig) + 1 < Limb THEN Front(sig) \o <<Last(sig) + 1>>
    ELSE AddOne(Front(sig)) \o <<0>>

\* Round to nearest, ties to even: guard is the first dropped bit, sticky
\* tells whether anything nonzero lies below it.
RoundNearestEven(sig, exp, guard, sticky) ==
    LET up  == guard /\ (sticky \/ Last(sig) % 2 = 1)
        inc == IF up THEN AddOne(sig) ELSE sig
    IN  IF inc[1] = 2
        THEN [sig |-> <<1, 0, 0, 0, 0>>, exp |-> exp + 1]
        ELSE [sig |-> inc, exp |-> exp]

\* float64(n) / float64(d) for 0 < n <= d, both exactly representable.
float64Div(n, d) ==
    LET sh == Shift(n, d)
        r0 == n * Pow2(sh) - d
        r  == DivRem(r0, d, 4)
    IN  RoundNearestEven(<<1>> \o DivLimbs(r0, d, 4), 0 - sh,
                         2 * r >= d, (2 * r) % d # 0)

RECURSIVE MulSmall(_, _, _)
MulSmall(sig, k, carry) ==
    IF Len(sig) = 1 THEN <<sig[1] * k + carry>>
    ELSE LET t == Last(sig) * k + carry
         IN  MulSmall(Front(sig), k, t \div Limb) \o <<t % Limb>>

\* x * 100 for a positive float64 x: the exact product has 59 or 60 bits.
float64MulHundred(x) ==
    LET prod == MulSmall(x.sig, 100, 0)
        k    == IF prod[1] >= 128 THEN 7 ELSE 6
        low  == Pow2(k)
        kept == [i \in 1..5 |->
                    IF i = 1 THEN prod[1] \div low
                    ELSE (prod[i - 1] % low) * (Limb \div low) + prod[i] \div low]
        drop == prod[5] % low
    IN  RoundNearestEven(kept, x.exp + k,
                         drop >= low \div 2, drop % (low \div 2) # 0)

\* x >= 60 for a positive float64 x; 60 is 1.111 (binary) times 2^5.
float64GeSixty(x) ==
    \/ x.exp > 5
    \/ x.exp = 5 /\ x.sig[2] >= 7 * (Limb \div 8)

ratioTimesHundredGeSixty(fail, total) ==
    IF fail = 0 THEN FALSE
    ELSE float64GeSixty(float64MulHundred(float64Div(fail, total)))

defaultCanTripAtTen(s) ==
    s.Total >= 10 /\ ratioTimesHundredGeSixty(s.Fail, s.Total)

defaultCanTripOverHalf(s) == s.Total > 10 /\ s.Fail * 100 >= 50 * s.Total

defaultCanTrip(s) == s.Total > 10 /\ ratioTimesHundredGeSixty(s.Fail, s.Total)

defaultFromHalfOpenToState(s) ==
    IF s.Fail > 0 THEN Open
    ELSE IF s.Total > 100 /\ ((s.Fail \div s.Total) * 100) < 99 THEN Closed
    ELSE HalfOpen

\* canTrip callbacks that ask for one failure more.
CanTripLate(p, s) ==
    CASE p = "default" -> s.Total > 10 /\ s.Fail * 100 >= 70 * s.Total
      [] p = "always" -> TRUE
      [] p = "never" -> FALSE
      [] p = "twoFails" -> s.Fail >= 3

\* The canTrip callbacks a caller of New may install (WithCanTrip).
CanTrip(p, s) ==
    CASE p = "default" -> defaultCanTrip(s)
      [] p = "always" -> TRUE
      [] p = "never" -> FALSE
      [] p = "twoFails" -> s.Fail >= 2

\* The fromHalfOpenToState callbacks (WithFromHalfOpenToState).
FromHalfOpenToState(p, s) ==
    CASE p = "default" -> defaultFromHalfOpenToState(s)
      [] p = "alwaysOpen" -> Open
      [] p = "closeOnSuccess" ->
            IF s.Fail > 0 THEN Open ELSE IF s.Success > 0 THEN Closed ELSE HalfOpen

\* ------------------------------------------------------------------ state
VARIABLES
    cfg,                \* frames, the two callbacks, what fn may do, the call budget
    state,              \* c.state.s
    stateMu,            \* holder of c.state.mu across steps ("" when free)
    window,             \* c.rollingWindow.window, oldest first
    summary,            \* c.summary.counts
    onHalfOpenTimeout,  \* c.onHalfOpenTimeout
    timers,             \* waitHalfOpen goroutines, counted by position
    rot,                \* position of the renewFrame goroutine
    rotFrame,           \* the frame unshiftFrame returned to moveWindow
    cancel,             \* the teardown caller: "no", "sending", "done"
    pc,                 \* position of each caller inside Execute
    adm,                \* verdict of canExecute for the caller's current call
    seen,               \* c.state.s as canExecute read it
    ret,                \* what the caller's current call returns
    popped,             \* the frame popFrame returned to the caller's afterExecute
    done,               \* the Execute call that returned last: what it saw, returned, did
    calls,              \* Execute calls issued so far
    atTrip              \* history: window length and Summary as the trip to Open left them

vars == <<cfg, state, stateMu, window, summary, onHalfOpenTimeout, timers, rot,
          rotFrame, cancel, pc, adm, seen, ret, popped, done, calls, atTrip>>

breaker == <<state, window, summary, onHalfOpenTimeout, timers>>

\* atTrip is a history variable, kept only in the behaviours that ask for it
\* (on): NoTrip while no trip to Open is being recovered from, Tripped at the
\* Closed -> Open step of afterExecute.
NoTrip(on) == [on |-> on, len |-> 0, summary |-> Zero]

Tripped(h, w, s) == IF h.on THEN [on |-> TRUE, len |-> Len(w), summary |-> s] ELSE h

\* make([]Counts, frames, frames+2): frames zero Counts.
makeWindowOfOne(frames) == <<Zero>>

makeWindow(frames) == [i \in 1..frames |-> Zero]

\* New: make([]Counts, frames, frames+2), state Closed, summary zero, and
\* go renewFrame.
NewBreaker(frames, trip, recover, outcomes, budget, history) ==
    /\ cfg = [frames |-> frames, canTrip |-> trip, fromHalfOpenToState |-> recover,
              outcomes |-> outcomes, budget |-> budget]
    /\ state = Closed
    /\ stateMu = ""
    /\ window = makeWindow(frames)
    /\ summary = Zero
    /\ onHalfOpenTimeout = FALSE
    /\ timers = [spawned |-> 0, waiting |-> 0, fired |-> 0]
    /\ rot = "wait"
    /\ rotFrame = Zero
    /\ cancel = "no"
    /\ pc = [c \in Callers |-> "idle"]
    /\ adm = [c \in Callers |-> "none"]
    /\ seen = [c \in Callers |-> "none"]
    /\ ret = [c \in Callers |-> "none"]
    /\ popped = [c \in Callers |-> Zero]
    /\ done = [adm |-> "none", seen |-> "none", ret |-> "none", did |-> "nothing"]
    /\ calls = 0
    /\ atTrip = NoTrip(history)

Init ==
    \E frames \in 1..MaxFrames, trip \in {"always", "twoFails"},
       recover \in {"alwaysOpen", "closeOnSuccess"} :
        NewBreaker(frames, trip, recover, {"nil", "errCall"}, MaxCalls, FALSE)

\* ------------------------------------------------------------------ helpers
\* canExecute as the variant of part_001 line 832 has it: Half-Open rejects too.
canExecuteRejectsHalfOpen(s) ==
    IF s = Open THEN "ErrOpenCircuit"
    ELSE IF s = HalfOpen THEN "ErrHalfOpenCircuit" ELSE "nil"

\* canExecute: the error it returns for the state it reads.
canExecute(s) == IF s = Open THEN "ErrOpenCircuit" ELSE "nil"

\* incrSuccess and incrFail, as they change one Counts value; both apply the
\* same change to the newest frame and to the summary, under both locks.
incrSuccessLost(c) == c

incrSuccess(c) == Counts((c.Total + 1) % UintMod, c.Fail, (c.Success + 1) % UintMod)

incrFailTwice(c) == Counts((c.Total + 2) % UintMod, (c.Fail + 2) % UintMod, c.Success)

\* incrFail that forgets Total.
incrFailNoTotal(c) == Counts(c.Total, (c.Fail + 1) % UintMod, c.Success)

incrFail(c) == Counts((c.Total + 1) % UintMod, (c.Fail + 1) % UintMod, c.Success)

decrSummaryTwice(s, decr) == SubCounts(SubCounts(s, decr), decr)

decrSummaryNothing(s, decr) == s

decrSummary(s, decr) == SubCounts(s, decr)

addFrameTwo(w) == Append(Append(w, Zero), Zero)

addFrame(w) == Append(w, Zero)

unshiftFrameNewest(w) == Front(w)

unshiftFrame(w) == Tail(w)

popFrame(w) == Front(w)

ArmNothing(t) == t

ArmTwo(t) == [t EXCEPT !.spawned = @ + 2]

ArmExtra(t) == [t EXCEPT !.spawned = @ + 1, !.waiting = @ + 1]

Arm(t) == [t EXCEPT !.spawned = @ + 1]

\* ------------------------------------------------------------------ Execute
\* Execute returns r to its caller (a "fault" is a panic of the breaker's own
\* bookkeeping that reaches the caller); what the call did is kept in done.
Returns(c, r, what) ==
    /\ pc' = [pc EXCEPT ![c] = "idle"]
    /\ adm' = [adm EXCEPT ![c] = "none"]
    /\ seen' = [seen EXCEPT ![c] = "none"]
    /\ ret' = [ret EXCEPT ![c] = "none"]
    /\ popped' = [popped EXCEPT ![c] = Zero]
    /\ done' = [adm |-> adm[c], seen |-> seen[c], ret |-> r, did |-> what]

\* Execute up to the return of canExecute.  The deferred afterExecute is
\* registered before, so it runs for a rejected call as well.
CanExecute(c) ==
    /\ pc[c] = "idle"
    /\ \A d \in Callers : Before(d, c) => pc[d] # "idle"
    /\ calls < cfg.budget
    /\ stateMu = ""
    /\ calls' = calls + 1
    /\ seen' = [seen EXCEPT ![c] = state]
    /\ IF canExecute(state) = "nil"
       THEN /\ adm' = [adm EXCEPT ![c] = "admitted"]
            /\ ret' = [ret EXCEPT ![c] = "none"]
            /\ pc' = [pc EXCEPT ![c] = "fn"]
       ELSE /\ adm' = [adm EXCEPT ![c] = "rejected"]
            /\ ret' = [ret EXCEPT ![c] = canExecute(state)]
            /\ pc' = [pc EXCEPT ![c] = "after"]
    /\ UNCHANGED <<cfg, state, stateMu, window, summary, onHalfOpenTimeout, timers,
                   rot, rotFrame, cancel, popped, done, atTrip>>

\* fn() returns nil or an error, or panics, and the outcome is recorded:
\* incrSuccess, incrFail, or the recover handler's incrFail.  Indexing the
\* newest frame of an empty window panics (index out of range) before
\* anything is counted; for a returned outcome that panic reaches the recover
\* handler, which calls incrFail once more.
Record(c, outcome) ==
    /\ pc[c] = "fn"
    /\ IF window = <<>>
       THEN /\ ret' = [ret EXCEPT ![c] = "fault"]
            /\ pc' = [pc EXCEPT ![c] = IF outcome = "panic" THEN "after" ELSE "recover"]
            /\ UNCHANGED <<window, summary>>
       ELSE /\ ret' = [ret EXCEPT ![c] = outcome]
            /\ pc' = [pc EXCEPT ![c] = "after"]
            /\ IF outcome = "nil"
               THEN /\ window' = [window EXCEPT ![Len(window)] = incrSuccess(@)]
                    /\ summary' = incrSuccess(summary)
               ELSE /\ window' = [window EXCEPT ![Len(window)] = incrFail(@)]
                    /\ summary' = incrFail(summary)
    /\ UNCHANGED <<cfg, state, stateMu, onHalfOpenTimeout, timers, rot, rotFrame,
                   cancel, adm, seen, popped, done, calls, atTrip>>

\* The recover handler after incrSuccess or incrFail panicked: incrFail, then
\* panic again.
Recover(c) ==
    /\ pc[c] = "recover"
    /\ pc' = [pc EXCEPT ![c] = "after"]
    /\ IF window = <<>>
       THEN UNCHANGED <<window, summary>>
       ELSE /\ window' = [window EXCEPT ![Len(window)] = incrFail(@)]
            /\ summary' = incrFail(summary)
    /\ UNCHANGED <<cfg, state, stateMu, onHalfOpenTimeout, timers, rot, rotFrame,
                   cancel, adm, seen, ret, popped, done, calls, atTrip>>

\* afterExecute that starts waitHalfOpen when the policy returns HalfOpen.
AfterExecuteRearms(c) ==
    /\ pc[c] = "after"
    /\ stateMu = ""
    /\ CASE state = Closed ->
              IF CanTrip(cfg.canTrip, summary)
              THEN /\ state' = Open
                   /\ timers' = Arm(timers)
                   /\ atTrip' = Tripped(atTrip, window, summary)
                   /\ Returns(c, ret[c], "tripped")
                   /\ UNCHANGED <<stateMu, window>>
              ELSE /\ Returns(c, ret[c], "nothing")
                   /\ UNCHANGED <<state, stateMu, window, timers, atTrip>>
         [] state = Open ->
              /\ Returns(c, ret[c], "nothing")
              /\ UNCHANGED <<state, stateMu, window, timers, atTrip>>
         [] state = HalfOpen /\ window = <<>> ->
              \* currentFrameCopy indexes an empty window: afterExecute panics
              /\ Returns(c, "fault", "nothing")
              /\ UNCHANGED <<state, stateMu, window, timers, atTrip>>
         [] state = HalfOpen /\ window # <<>> ->
              LET to == FromHalfOpenToState(cfg.fromHalfOpenToState, Last(window)) IN
              CASE to = Open /\ onHalfOpenTimeout ->
                     /\ Returns(c, ret[c], "found armed")
                     /\ UNCHANGED <<state, stateMu, window, timers, atTrip>>
                [] to = Open /\ ~onHalfOpenTimeout ->
                     /\ timers' = Arm(timers)
                     /\ state' = Open
                     /\ popped' = [popped EXCEPT ![c] = Last(window)]
                     /\ window' = popFrame(window)
                     /\ stateMu' = c
                     /\ pc' = [pc EXCEPT ![c] = "popWindow"]
                     /\ UNCHANGED <<adm, seen, ret, done, atTrip>>
                [] to = Closed ->
                     /\ state' = Closed
                     /\ popped' = [popped EXCEPT ![c] = Last(window)]
                     /\ window' = popFrame(window)
                     /\ stateMu' = c
                     /\ pc' = [pc EXCEPT ![c] = "aggregate"]
                     /\ atTrip' = NoTrip(atTrip.on)
                     /\ UNCHANGED <<timers, adm, seen, ret, done>>
                [] to = HalfOpen ->
                     /\ timers' = Arm(timers)
                     /\ Returns(c, ret[c], "nothing")
                     /\ UNCHANGED <<state, stateMu, window, atTrip>>
    /\ UNCHANGED <<cfg, summary, onHalfOpenTimeout, rot, rotFrame, cancel, calls>>

\* afterExecute from c.state.mu.Lock() on.  Execute returns in this step,
\* except on the two Half-Open resolutions, which go on with the state lock
\* held.
AfterExecute(c) ==
    /\ pc[c] = "after"
    /\ stateMu = ""
    /\ CASE state = Closed ->
              IF CanTrip(cfg.canTrip, summary)
              THEN /\ state' = Open
                   /\ timers' = Arm(timers)
                   /\ atTrip' = Tripped(atTrip, window, summary)
                   /\ Returns(c, ret[c], "tripped")
                   /\ UNCHANGED <<stateMu, window>>
              ELSE /\ Returns(c, ret[c], "nothing")
                   /\ UNCHANGED <<state, stateMu, window, timers, atTrip>>
         [] state = Open ->
              /\ Returns(c, ret[c], "nothing")
              /\ UNCHANGED <<state, stateMu, window, timers, atTrip>>
         [] state = HalfOpen /\ window = <<>> ->
              \* currentFrameCopy indexes an empty window: afterExecute panics
              /\ Returns(c, "fault", "nothing")
              /\ UNCHANGED <<state, stateMu, window, timers, atTrip>>
         [] state = HalfOpen /\ window # <<>> ->
              LET to == FromHalfOpenToState(cfg.fromHalfOpenToState, Last(window)) IN
              CASE to = Open /\ onHalfOpenTimeout ->
                     /\ Returns(c, ret[c], "found armed")
                     /\ UNCHANGED <<state, stateMu, window, timers, atTrip>>
                [] to = Open /\ ~onHalfOpenTimeout ->
                     /\ timers' = Arm(timers)
                     /\ state' = Open
                     /\ popped' = [popped EXCEPT ![c] = Last(window)]
                     /\ window' = popFrame(window)
                     /\ stateMu' = c
                     /\ pc' = [pc EXCEPT ![c] = "popWindow"]
                     /\ UNCHANGED <<adm, seen, ret, done, atTrip>>
                [] to = Closed ->
                     /\ state' = Closed
                     /\ popped' = [popped EXCEPT ![c] = Last(window)]
                     /\ window' = popFrame(window)
                     /\ stateMu' = c
                     /\ pc' = [pc EXCEPT ![c] = "aggregate"]
                     /\ atTrip' = NoTrip(atTrip.on)
                     /\ UNCHANGED <<timers, adm, seen, ret, done>>
                [] to = HalfOpen ->
                     /\ Returns(c, ret[c], "nothing")
                     /\ UNCHANGED <<state, stateMu, window, timers, atTrip>>
    /\ UNCHANGED <<cfg, summary, onHalfOpenTimeout, rot, rotFrame, cancel, calls>>

PopWindowKeepsLock(c) ==
    /\ pc[c] = "popWindow"
    /\ summary' = decrSummary(summary, popped[c])
    /\ Returns(c, ret[c], "reopened")
    /\ UNCHANGED <<cfg, state, stateMu, window, onHalfOpenTimeout, timers, rot,
                   rotFrame, cancel, calls, atTrip>>

\* popWindow after popFrame: decrSummary, then afterExecute and Execute return.
PopWindow(c) ==
    /\ pc[c] = "popWindow"
    /\ summary' = decrSummary(summary, popped[c])
    /\ stateMu' = ""
    /\ Returns(c, ret[c], "reopened")
    /\ UNCHANGED <<cfg, state, window, onHalfOpenTimeout, timers, rot, rotFrame,
                   cancel, calls, atTrip>>

AggregateResets(c) ==
    /\ pc[c] = "aggregate"
    /\ window' = <<Zero>>
    /\ summary' = Zero
    /\ Returns(c, ret[c], "closed")
    /\ stateMu' = ""
    /\ UNCHANGED <<cfg, state, onHalfOpenTimeout, timers, rot, rotFrame,
                   cancel, calls, atTrip>>

\* aggregateHalfOpenFrame after popFrame: the popped frame is added to the
\* frame that is now the newest (a panic when there is none).
Aggregate(c) ==
    /\ pc[c] = "aggregate"
    /\ IF window = <<>>
       THEN /\ Returns(c, "fault", "closed")
            /\ UNCHANGED window
       ELSE /\ window' = [window EXCEPT ![Len(window)] = AddCounts(@, popped[c])]
            /\ Returns(c, ret[c], "closed")
    /\ stateMu' = ""
    /\ UNCHANGED <<cfg, state, summary, onHalfOpenTimeout, timers, rot, rotFrame,
                   cancel, calls, atTrip>>

\* ------------------------------------------------------------------ waitHalfOpen
\* A waitHalfOpen goroutine starts to run: onHalfOpenTimeout.Store(true).
TimerStart ==
    /\ timers.spawned > 0
    /\ timers' = [timers EXCEPT !.spawned = @ - 1, !.waiting = @ + 1]
    /\ onHalfOpenTimeout' = TRUE
    /\ UNCHANGED <<cfg, state, stateMu, window, summary, rot, rotFrame, cancel, pc,
                   adm, seen, ret, popped, done, calls, atTrip>>

\* halfOpenTimeout has elapsed: under the state lock the state becomes
\* Half-Open and addFrame appends the probe frame.
TimerFire ==
    /\ timers.waiting > 0
    /\ stateMu = ""
    /\ timers' = [timers EXCEPT !.waiting = @ - 1, !.fired = @ + 1]
    /\ state' = HalfOpen
    /\ window' = addFrame(window)
    /\ UNCHANGED <<cfg, stateMu, summary, onHalfOpenTimeout, rot, rotFrame, cancel,
                   pc, adm, seen, ret, popped, done, calls, atTrip>>

\* The deferred onHalfOpenTimeout.Store(false), after the state lock is released.
TimerEnd ==
    /\ timers.fired > 0
    /\ timers' = [timers EXCEPT !.fired = @ - 1]
    /\ onHalfOpenTimeout' = FALSE
    /\ UNCHANGED <<cfg, state, stateMu, window, summary, rot, rotFrame, cancel, pc,
                   adm, seen, ret, popped, done, calls, atTrip>>

\* ------------------------------------------------------------------ renewFrame
\* time.After(windowFrame) fires: the task returns unless stateCopy() is Closed.
RotTick ==
    /\ rot = "wait"
    /\ stateMu = ""
    /\ rot' = IF state # Closed THEN "done" ELSE "unshift"
    /\ UNCHANGED <<cfg, state, stateMu, window, summary, onHalfOpenTimeout, timers,
                   rotFrame, cancel, pc, adm, seen, ret, popped, done, calls, atTrip>>

\* moveWindow, first critical section: unshiftFrame.
RotUnshift ==
    /\ rot = "unshift"
    /\ IF window = <<>>
       THEN /\ rot' = "panic"
            /\ UNCHANGED <<window, rotFrame>>
       ELSE /\ rot' = "decr"
            /\ rotFrame' = Head(window)
            /\ window' = unshiftFrame(window)
    /\ UNCHANGED <<cfg, state, stateMu, summary, onHalfOpenTimeout, timers, cancel,
                   pc, adm, seen, ret, popped, done, calls, atTrip>>

\* moveWindow, second critical section: decrSummary.
RotDecr ==
    /\ rot = "decr"
    /\ rot' = "add"
    /\ summary' = decrSummary(summary, rotFrame)
    /\ UNCHANGED <<cfg, state, stateMu, window, onHalfOpenTimeout, timers, rotFrame,
                   cancel, pc, adm, seen, ret, popped, done, calls, atTrip>>

\* moveWindow, third critical section: addFrame.
RotAdd ==
    /\ rot = "add"
    /\ rot' = "wait"
    /\ window' = addFrame(window)
    /\ UNCHANGED <<cfg, state, stateMu, summary, onHalfOpenTimeout, timers, rotFrame,
                   cancel, pc, adm, seen, ret, popped, done, calls, atTrip>>

\* ------------------------------------------------------------------ teardown
\* cancelFunc: cancelCh <- struct{}{} on an unbuffered channel.
Teardown ==
    /\ cancel = "no"
    /\ cancel' = "sending"
    /\ UNCHANGED <<cfg, state, stateMu, window, summary, onHalfOpenTimeout, timers,
                   rot, rotFrame, pc, adm, seen, ret, popped, done, calls, atTrip>>

\* renewFrame receives from cancel in its select, and returns.
RotCancel ==
    /\ rot = "wait"
    /\ cancel = "sending"
    /\ rot' = "done"
    /\ cancel' = "done"
    /\ UNCHANGED <<cfg, state, stateMu, window, summary, onHalfOpenTimeout, timers,
                   rotFrame, pc, adm, seen, ret, popped, done, calls, atTrip>>

\* ------------------------------------------------------------------ specification
Caller(c) ==
    \/ CanExecute(c)
    \/ \E o \in cfg.outcomes : Record(c, o)
    \/ Recover(c)
    \/ AfterExecute(c)
    \/ PopWindow(c)
    \/ Aggregate(c)

Next ==
    \/ \E c \in Callers : Caller(c)
    \/ TimerStart
    \/ TimerFire
    \/ TimerEnd
    \/ RotTick
    \/ RotUnshift
    \/ RotDecr
    \/ RotAdd

Spec == Init /\ [][Next]_vars

\* One goroutine feeds the breaker call after call (syncFeedCircuitBreakerHelper
\* of the tests) with the default policies; the frame threshold is not reached
\* and the half-open timeout does not elapse while the calls are issued.
InitSeq ==
    \E frames \in 1..MaxFrames :
        NewBreaker(frames, "default", "default", {"nil", "errCall"}, SeqCalls, TRUE)

NextSeq ==
    \/ CanExecute("c1")
    \/ \E o \in cfg.outcomes : Record("c1", o)
    \/ AfterExecute("c1")
    \/ TimerStart

SpecSeq == InitSeq /\ [][NextSeq]_vars

\* The breaker under a scheduler that lets every goroutine run: a spawned
\* waitHalfOpen starts, its sleep ends and it gets state.mu once the lock is
\* free, its deferred Store runs, and a caller that holds state.mu finishes
\* afterExecute. Callers are not obliged to call and the ticker is not
\* obliged to tick.
InitLive ==
    \E frames \in 1..LiveFrames, trip \in {"always", "twoFails"},
       recover \in {"alwaysOpen", "closeOnSuccess"} :
        NewBreaker(frames, trip, recover, {"nil", "errCall"}, LiveCalls, FALSE)

Fairness ==
    /\ WF_vars(TimerStart)
    /\ WF_vars(TimerFire)
    /\ WF_vars(TimerEnd)
    /\ WF_vars(\E c \in Callers : PopWindow(c))
    /\ WF_vars(\E c \in Callers : Aggregate(c))

SpecLive == InitLive /\ [][Next]_vars /\ Fairness

\* The locks a goroutine takes while it holds another one, <<held, taken>>:
\* afterExecute holds state.mu over summaryCopy, currentFrameCopy, popFrame,
\* decrSummary and aggregateHalfOpenFrame; waitHalfOpen holds state.mu over
\* addFrame; incrSuccess and incrFail hold rollingWindow.mu over summary.mu.
\* moveWindow, popWindow and aggregateHalfOpenFrame take rollingWindow.mu and
\* summary.mu one after the other, never one inside the other.
LockNesting ==
    {<<"state", "summary">>, <<"state", "window">>, <<"window", "summary">>}

LockRank(l) == CASE l = "state" -> 1 [] l = "window" -> 2 [] l = "summary" -> 3

\* As Fairness, and a caller whose operation has ended gets to run its
\* deferred functions (sync.Mutex hands the lock to a waiter).
FairnessCalls ==
    /\ Fairness
    /\ \A c \in Callers : WF_vars(AfterExecute(c)) /\ WF_vars(Recover(c))

SpecCalls == InitLive /\ [][Next]_vars /\ FairnessCalls

\* The breaker with the history of its last trip kept in atTrip.
InitTrip ==
    \E frames \in 1..TripFrames, recover \in {"alwaysOpen", "closeOnSuccess"} :
        NewBreaker(frames, "always", recover, {"nil", "errCall"}, TripCalls, TRUE)

SpecTrip == InitTrip /\ [][Next]_vars

\* The breaker around operations that return nil or panic.
InitPanic ==
    \E frames \in 1..PanicFrames, trip \in {"always", "twoFails"},
       recover \in {"alwaysOpen", "closeOnSuccess"} :
        NewBreaker(frames, trip, recover, {"nil", "panic"}, PanicCalls, FALSE)

SpecPanic == InitPanic /\ [][Next]_vars

\* Concurrent callers of a breaker whose canTrip always returns false, while
\* no frame threshold elapses (feedCircuitBreakerHelper of the tests, with the
\* window thresholds far above the duration of the calls).
InitCount ==
    \E frames \in 1..CountFrames :
        NewBreaker(frames, "never", "alwaysOpen", {"nil", "errCall"}, CountCalls, FALSE)

NextCount ==
    \E c \in Callers :
        \/ CanExecute(c)
        \/ \E o \in cfg.outcomes : Record(c, o)
        \/ AfterExecute(c)

SpecCount == InitCount /\ [][NextCount]_vars

\* ------------------------------------------------------------------ default policies
\* The default callbacks applied to a Counts value: summary holds the
\* argument, done the returned value.
InitPolicy ==
    \E total \in 0..PolicyTotal : \E fail \in 0..total :
        /\ cfg = [opts |-> <<>>, frames |-> 0]
        /\ state = "none"
        /\ stateMu = ""
        /\ window = <<>>
        /\ summary = Counts(total, fail, total - fail)
        /\ onHalfOpenTimeout = FALSE
        /\ timers = [spawned |-> 0, waiting |-> 0, fired |-> 0]
        /\ rot = "none"
        /\ rotFrame = Zero
        /\ cancel = "none"
        /\ pc = [c \in Callers |-> "idle"]
        /\ adm = [c \in Callers |-> "none"]
        /\ seen = [c \in Callers |-> "none"]
        /\ ret = [c \in Callers |-> "none"]
        /\ popped = [c \in Callers |-> Zero]
        /\ done = [adm |-> "none", seen |-> "none", ret |-> "none", did |-> "nothing"]
        /\ calls = 0
        /\ atTrip = NoTrip(FALSE)

EvalCanTrip ==
    /\ done.did = "nothing"
    /\ done' = [done EXCEPT !.ret = IF defaultCanTrip(summary) THEN "true" ELSE "false",
                            !.did = "canTrip"]
    /\ UNCHANGED <<cfg, state, stateMu, window, summary, onHalfOpenTimeout, timers,
                   rot, rotFrame, cancel, pc, adm, seen, ret, popped, calls, atTrip>>

EvalFromHalfOpenToState ==
    /\ done.did = "nothing"
    /\ done' = [done EXCEPT !.ret = defaultFromHalfOpenToState(summary),
                            !.did = "fromHalfOpenToState"]
    /\ UNCHANGED <<cfg, state, stateMu, window, summary, onHalfOpenTimeout, timers,
                   rot, rotFrame, cancel, pc, adm, seen, ret, popped, calls, atTrip>>

NextPolicy == EvalCanTrip \/ EvalFromHalfOpenToState

SpecPolicy == InitPolicy /\ [][NextPolicy]_vars

\* ------------------------------------------------------------------ probes
\* A breaker that trips on every call and recovers by the default policy,
\* which never returns Closed for the few calls made here.
InitProbe ==
    \E frames \in 1..ProbeFrames :
        NewBreaker(frames, "always", "default", {"nil", "errCall"}, ProbeCalls, FALSE)

NextProbe ==
    \/ \E c \in Callers :
          \/ CanExecute(c)
          \/ \E o \in cfg.outcomes : Record(c, o)
          \/ Recover(c)
          \/ AfterExecute(c)
          \/ PopWindow(c)
    \/ TimerStart \/ TimerFire \/ TimerEnd
    \/ RotTick \/ RotUnshift \/ RotDecr \/ RotAdd

SpecProbe == InitProbe /\ [][NextProbe]_vars

\* ------------------------------------------------------------------ concurrent feed
\* feedCircuitBreakerHelper against a new breaker within one window frame:
\* concurrent calls, the recovery timer, and no rotation tick.
InitRace ==
    \E frames \in 1..RaceFrames, trip \in {"twoFails", "default"} :
        NewBreaker(frames, trip, "default", {"nil", "errCall"}, RaceCalls, FALSE)

NextRace ==
    \/ \E c \in Callers :
          \/ CanExecute(c)
          \/ \E o \in cfg.outcomes : Record(c, o)
          \/ AfterExecute(c)
          \/ PopWindow(c)
    \/ TimerStart \/ TimerFire \/ TimerEnd

SpecRace == InitRace /\ [][NextRace]_vars

\* ------------------------------------------------------------------ New
\* The options (src/breaker.go): an option is its kind and its argument, the
\* seconds of a threshold or, for a callback, 0 for nil and 1 for a function.
NumArgs == {-1, 0, 1, 15, 300, 400}

Thresholds ==
    {"WithWindowFrameThreshold", "WithWindowRollThreshold", "WithHalfOpenThreshold"}

Callbacks == {"WithCanTrip", "WithFromHalfOpenToState"}

Options ==
    {[kind |-> k, arg |-> a] : k \in Thresholds, a \in NumArgs}
        \cup {[kind |-> k, arg |-> a] : k \in Callbacks, a \in {0, 1}}

\* optionsConfiguration as New starts it; err is the error an option returned.
defaultOptions ==
    [windowFrame |-> 15, windowRoll |-> 300, halfOpenThreshold |-> 30,
     canTrip |-> 1, fromHalfOpenToState |-> 1, err |-> FALSE]

WithWindowFrameThreshold(seconds, opt) ==
    IF seconds <= 0 THEN [opt EXCEPT !.err = TRUE]
    ELSE [opt EXCEPT !.windowFrame = seconds]

WithWindowRollThreshold(seconds, opt) ==
    IF seconds <= 0 THEN [opt EXCEPT !.err = TRUE]
    ELSE [opt EXCEPT !.windowRoll = seconds]

WithHalfOpenThresholdUnchecked(seconds, opt) ==
    [opt EXCEPT !.halfOpenThreshold = seconds]

WithHalfOpenThreshold(seconds, opt) ==
    IF seconds <= 0 THEN [opt EXCEPT !.err = TRUE]
    ELSE [opt EXCEPT !.halfOpenThreshold = seconds]

WithCanTrip(canTrip, opt) ==
    IF canTrip = 0 THEN [opt EXCEPT !.err = TRUE]
    ELSE [opt EXCEPT !.canTrip = canTrip]

WithFromHalfOpenToState(fromHalfOpenToState, opt) ==
    IF fromHalfOpenToState = 0 THEN [opt EXCEPT !.err = TRUE]
    ELSE [opt EXCEPT !.fromHalfOpenToState = fromHalfOpenToState]

ApplyOption(o, opt) ==
    CASE o.kind = "WithWindowFrameThreshold" -> WithWindowFrameThreshold(o.arg, opt)
      [] o.kind = "WithWindowRollThreshold" -> WithWindowRollThreshold(o.arg, opt)
      [] o.kind = "WithHalfOpenThreshold" -> WithHalfOpenThreshold(o.arg, opt)
      [] o.kind = "WithCanTrip" -> WithCanTrip(o.arg, opt)
      [] o.kind = "WithFromHalfOpenToState" -> WithFromHalfOpenToState(o.arg, opt)

\* for _, opt := range opts: the first option that returns an error ends New.
RECURSIVE ApplyOptions(_, _)
ApplyOptions(opts, opt) ==
    IF opts = <<>> THEN opt
    ELSE LET next == ApplyOption(Head(opts), opt)
         IN  IF next.err THEN next ELSE ApplyOptions(Tail(opts), next)

\* New up to the construction of the breaker: the error, or the frames.
New(opts) ==
    LET cbOpts == ApplyOptions(opts, defaultOptions)
    IN  IF cbOpts.err THEN [err |-> TRUE, frames |-> 0]
        ELSE IF cbOpts.windowFrame > cbOpts.windowRoll THEN [err |-> TRUE, frames |-> 0]
        ELSE [err |-> FALSE, frames |-> cbOpts.windowRoll \div cbOpts.windowFrame]

\* Before New is called: no breaker, no cancel function, no goroutine.
InitNew ==
    \E opts \in UNION {[1..n -> Options] : n \in 0..MaxOpts} :
        /\ cfg = [opts |-> opts, frames |-> 0]
        /\ state = "none"
        /\ stateMu = ""
        /\ window = <<>>
        /\ summary = Zero
        /\ onHalfOpenTimeout = FALSE
        /\ timers = [spawned |-> 0, waiting |-> 0, fired |-> 0]
        /\ rot = "none"
        /\ rotFrame = Zero
        /\ cancel = "none"
        /\ pc = [c \in Callers |-> "idle"]
        /\ adm = [c \in Callers |-> "none"]
        /\ seen = [c \in Callers |-> "none"]
        /\ ret = [c \in Callers |-> "none"]
        /\ popped = [c \in Callers |-> Zero]
        /\ done = [adm |-> "none", seen |-> "none", ret |-> "none", did |-> "nothing"]
        /\ calls = 0
        /\ atTrip = NoTrip(FALSE)

\* New(opts...): on an error cb and cancel stay nil and nothing is started;
\* otherwise the breaker is built and go renewFrame starts the rotation task.
Construct ==
    /\ state = "none"
    /\ done.did = "nothing"
    /\ LET r == New(cfg.opts)
       IN  IF r.err
           THEN /\ done' = [done EXCEPT !.ret = "ErrNewCircuitBreaker", !.did = "failed"]
                /\ UNCHANGED <<cfg, state, window, rot, cancel>>
           ELSE /\ done' = [done EXCEPT !.ret = "nil", !.did = "constructed"]
                /\ cfg' = [cfg EXCEPT !.frames = r.frames]
                /\ state' = Closed
                /\ window' = makeWindow(r.frames)
                /\ rot' = "wait"
                /\ cancel' = "no"
    /\ UNCHANGED <<stateMu, summary, onHalfOpenTimeout, timers, rotFrame, pc, adm,
                   seen, ret, popped, calls, atTrip>>

NextNew == Construct

SpecNew == InitNew /\ [][NextNew]_vars

\* The breaker and a goroutine that calls the cancel function New returned,
\* once, at any time.  Every goroutine that can run does: the timers and the
\* lock holders as in Fairness, the rotation task through moveWindow, and its
\* select takes the cancel case when that case is ready again and again.
InitDown ==
    \E frames \in 1..DownFrames, trip \in {"always", "twoFails"},
       recover \in {"alwaysOpen", "closeOnSuccess"} :
        NewBreaker(frames, trip, recover, {"nil", "errCall"}, DownCalls, FALSE)

NextDown == Next \/ Teardown \/ RotCancel

FairnessDown ==
    /\ Fairness
    /\ WF_vars(RotUnshift)
    /\ WF_vars(RotDecr)
    /\ WF_vars(RotAdd)
    /\ SF_vars(RotCancel)

SpecDown == InitDown /\ [][NextDown]_vars /\ FairnessDown

\* ------------------------------------------------------------------ claims
\* The buckets and the summary, as one sequence of Counts.
AllCounts == window \o <<summary>>

\* C1: in every reachable state, the intermediate steps of a rotation, of a
\* probe-bucket discard and of a Half-Open-to-Closed merge included, the
\* Summary is the field-wise sum of the buckets in the window.
C1_SummaryIsSumOfBuckets == summary = SumCounts(window)

\* C2: in every reachable state every bucket of the window and the Summary
\* have Total = Fail + Success.
C2_TotalIsFailPlusSuccess ==
    \A i \in 1..Len(AllCounts) :
        AllCounts[i].Total = AllCounts[i].Fail + AllCounts[i].Success

\* C2 witness: failures and successes have been counted, in the newest bucket
\* and in the Summary.
C2_Witness ==
    /\ window # <<>>
    /\ Last(window).Fail > 0
    /\ Last(window).Success > 0
    /\ summary.Fail > 0
    /\ summary.Success > 0

\* C3: a call whose admission check finds the breaker Open returns
\* ErrOpenCircuit, does not invoke the operation, and no step of it changes a
\* counter of a bucket or of the Summary (the Summary and the sum of the
\* buckets are what they were before the step).
C3_OpenRejectsWithoutEffect ==
    /\ [](\A c \in Callers :
            seen[c] = Open => adm[c] = "rejected" /\ ret[c] = "ErrOpenCircuit")
    /\ [](done.seen = Open => done.adm = "rejected" /\ done.ret = "ErrOpenCircuit")
    /\ [][\A c \in Callers :
            adm[c] = "rejected" /\ pc'[c] # pc[c]
                => summary' = summary /\ SumCounts(window') = SumCounts(window)]_vars

C5_RecordThenTripAndArm ==
    /\ [](\A c \in Callers :
            pc[c] = "after" /\ adm[c] = "admitted" /\ seen[c] = Closed
                => ret[c] \in cfg.outcomes)
    /\ [][\A c \in Callers :
            /\ pc[c] = "fn" /\ pc'[c] = "after" /\ seen[c] = Closed
            => /\ summary'.Total = summary.Total + 1
               /\ Last(window').Total = Last(window).Total + 1]_vars
    /\ [][\A c \in Callers :
            /\ pc[c] = "after" /\ pc'[c] = "idle"
            /\ adm[c] = "admitted" /\ seen[c] = Closed
            /\ state = Closed /\ CanTrip(cfg.canTrip, summary)
            => state' = Open /\ timers'.spawned = timers.spawned + 1]_vars

\* C6: with the default trip policy and calls issued one after another on a
\* fresh breaker with no rotation, the breaker is Open after a call exactly
\* when the Summary then has Total > 10 and Fail/Total >= 60%, and not
\* before: with 7 failures and 3 successes counted (10 calls) it is Closed,
\* with 7 failures and 4 successes (11 calls) it is Open, a call issued after
\* that is rejected with ErrOpenCircuit, and the Summary stays what the trip
\* left.
C6_TripsOnFirstCallOverThreshold ==
    /\ pc["c1"] = "idle" /\ state = Closed
           => ~(summary.Total > 10 /\ summary.Fail * 100 >= 60 * summary.Total)
    /\ state = Open
           => /\ summary.Total > 10 /\ summary.Fail * 100 >= 60 * summary.Total
              /\ summary = atTrip.summary
    /\ pc["c1"] = "idle" /\ summary = Counts(10, 7, 3) => state = Closed
    /\ pc["c1"] = "idle" /\ summary = Counts(11, 7, 4) => state = Open
    /\ done.seen = Open => done.adm = "rejected" /\ done.ret = "ErrOpenCircuit"

\* C6 witness: the breaker tripped on 7 failures and 4 successes and the call
\* issued next has been rejected.
C6_Witness ==
    /\ state = Open /\ summary = Counts(11, 7, 4) /\ calls = 12
    /\ pc["c1"] = "idle" /\ done.seen = Open /\ done.ret = "ErrOpenCircuit"

\* C7: whenever the breaker is Open it eventually becomes Half-Open, by the
\* timer goroutine alone (no Execute call is needed), when the goroutines are
\* scheduled fairly and teardown is not called.
C7_OpenLeadsToHalfOpen == (state = Open) ~> (state = HalfOpen)

\* C7 witness: the only call issued tripped the breaker, it has returned, and
\* the breaker is Half-Open.
C7_Witness ==
    /\ state = HalfOpen /\ calls = 1 /\ done.did = "tripped"
    /\ \A c \in Callers : pc[c] = "idle"

C9_FailedProbeReopensAndRearms ==
    [][\A c \in Callers :
          /\ pc[c] = "after" /\ pc'[c] # "after"
          /\ adm[c] = "admitted" /\ seen[c] = HalfOpen
          /\ state = HalfOpen /\ window # <<>>
          /\ FromHalfOpenToState(cfg.fromHalfOpenToState, Last(window)) = Open
          => state' = Open /\ timers'.spawned = timers.spawned + 1]_vars

\* C10: when Half-Open resolves to Open the probe outcome is discarded: once
\* the transition is done the Summary equals what it was when the breaker
\* tripped and the window has the length it had then.
C10_ReopenRestoresTripState ==
    [][\A c \in Callers :
          pc[c] = "popWindow" /\ pc'[c] = "idle"
              => summary' = atTrip.summary /\ Len(window') = atTrip.len]_vars

\* C10 as amended: the transition to Open removes exactly the newest (probe)
\* bucket, leaving the older buckets as they are, and then subtracts exactly
\* that bucket's Counts from the Summary; the window is one bucket shorter
\* than when the transition began.
C10_ReopenDropsProbeBucket ==
    [][\A c \in Callers :
          /\ pc[c] = "after" /\ pc'[c] = "popWindow"
                 => /\ state = HalfOpen /\ state' = Open
                    /\ window' = Front(window)
                    /\ popped'[c] = Last(window)
                    /\ summary' = summary
          /\ pc[c] = "popWindow" /\ pc'[c] = "idle"
                 => /\ state = Open /\ state' = Open
                    /\ window' = window
                    /\ summary' = SubCounts(summary, popped[c])]_vars

\* C10 witness: a call admitted in Half-Open has sent the breaker back to
\* Open, and the Summary and the window length are those of the trip.
C10_Witness ==
    /\ done.did = "reopened" /\ done.seen = HalfOpen /\ state = Open
    /\ summary.Total > 0 /\ summary = atTrip.summary /\ Len(window) = atTrip.len

\* C11: the rotation task does not terminate because it observed a non-Closed
\* state at a frame tick: whenever the breaker is Closed, also after it has
\* been through Open and Half-Open, the task is still there to rotate the
\* window (teardown is not called in these behaviours).
C11_RotationTaskAliveWhenClosed == state = Closed => rot # "done"

\* C12: no step of a rotation (oldest bucket evicted, Summary decremented by
\* the evicted bucket, new bucket appended) is taken while the breaker is Open
\* or Half-Open, however the task's state check interleaves with a trip.
C12_NoRotationUnlessClosed ==
    [][(rot' # rot /\ rot \in {"unshift", "decr", "add"}) => state = Closed]_vars

\* C13: in every reachable state the window has at most capacity buckets
\* (capacity = floor(windowRoll / windowFrame)), in Closed, Open and Half-Open
\* alike.
C13_LengthAtMostCapacity == Len(window) <= cfg.frames

\* C13 as amended: the window has at most capacity buckets in Closed and in
\* Open and at most capacity + 1 in Half-Open (the probe bucket is an extra
\* one); in Closed with no rotation in progress it has exactly capacity.
C13_LengthAtMostCapacityPlusProbe ==
    /\ Len(window) <= cfg.frames + 1
    /\ state # HalfOpen => Len(window) <= cfg.frames
    /\ state = Closed /\ rot \in {"wait", "done"} => Len(window) = cfg.frames

\* C13 witness: Half-Open with the probe bucket on top of a full window.
C13_Witness == state = HalfOpen /\ Len(window) = cfg.frames + 1

\* C14: at most one recovery timer is pending (started or about to start, not
\* yet fired) at any time, none is pending unless the breaker is Open, and a
\* timer fires only in Open, moving it to Half-Open: once per entry to Open.
C14_OneTimerPending ==
    /\ [](timers.spawned + timers.waiting <= 1)
    /\ [](state # Open => timers.spawned + timers.waiting = 0)
    /\ [][timers'.fired > timers.fired => state = Open /\ state' = HalfOpen]_vars

\* C14 witness: the breaker is Open again with its timer armed while the
\* goroutine of the previous timer has fired and not yet finished.
C14_Witness == state = Open /\ timers.spawned = 1 /\ timers.fired = 1

\* C15: for every admitted call Execute returns the operation's own result
\* (nil or the operation's error) and the call records exactly one outcome:
\* the step that ends the operation adds one to Total and to Fail (error) or
\* Success (nil), in the newest bucket and in the Summary, and no other step
\* of the call counts anything.
C15_OwnResultOneOutcome ==
    /\ [](done.adm = "admitted" => done.ret \in cfg.outcomes)
    /\ [][\A c \in Callers :
            pc[c] = "fn" /\ pc'[c] # "fn"
                => /\ ret'[c] \in cfg.outcomes
                   /\ summary' = IF ret'[c] = "nil" THEN incrSuccess(summary)
                                                    ELSE incrFail(summary)]_vars
    /\ [][\A c \in Callers :
            pc[c] = "recover" /\ pc'[c] # "recover" => summary' = summary]_vars

\* C16: when the operation of an admitted call panics, the call records one
\* failure (Total + 1, Fail + 1) in the step that ends the operation, the
\* same panic is what Execute lets through to the caller, and no lock is
\* left held once the calls have returned.
C16_PanicCountedAndPropagated ==
    /\ [][\A c \in Callers :
            pc[c] = "fn" /\ pc'[c] = "after" /\ ret'[c] # "nil"
                => /\ ret'[c] = "panic"
                   /\ summary' = incrFail(summary)
                   /\ window' = [window EXCEPT ![Len(window)] = incrFail(@)]]_vars
    /\ [][\A c \in Callers :
            ret[c] = "panic" /\ pc'[c] = "idle" => done'.ret = "panic"]_vars
    /\ []((\A c \in Callers : pc[c] = "idle") => stateMu = "")

\* C17: concurrent calls against a Closed breaker whose canTrip is always
\* false, with no rotation: every operation that has ended is counted once,
\* as a failure or as a success according to what it returned, so that when
\* all N calls have returned Summary.Total = N.
C17_NoLostIncrement ==
    /\ [](summary.Total = calls - Cardinality({c \in Callers : pc[c] = "fn"}))
    /\ [](summary.Total = summary.Fail + summary.Success)
    /\ []((\A c \in Callers : pc[c] = "idle") => summary.Total = calls)
    /\ [][\A c \in Callers :
            pc[c] = "fn" /\ pc'[c] # "fn"
                => \/ ret'[c] = "errCall" /\ summary' = incrFail(summary)
                   \/ ret'[c] = "nil" /\ summary' = incrSuccess(summary)]_vars

\* C17 witness: two concurrent calls have both recorded their outcome and
\* neither has returned; all the calls issued are counted.
C17_Witness ==
    /\ \A c \in Callers : pc[c] = "after"
    /\ calls = CountCalls /\ summary.Total = CountCalls
    /\ summary.Fail > 0 /\ summary.Success > 0

\* C18: no step of the breaker's own bookkeeping faults: no Execute call ends
\* in a panic that did not come from the operation, and the rotation task
\* does not panic.
C18_NoBookkeepingFault ==
    /\ done.ret # "fault"
    /\ \A c \in Callers : ret[c] # "fault"
    /\ rot # "panic"

\* C19: once teardown has returned no background task acts any more: the
\* rotation task takes no step and no recovery timer moves the breaker from
\* Open to Half-Open.
C19_NothingActsAfterTeardown ==
    [][cancel = "done" => rot' = rot /\ ~(state = Open /\ state' = HalfOpen)]_vars

\* C20: a call of the teardown function returns: its send on the cancel
\* channel is eventually received, in whatever state the breaker is.
C20_TeardownReturns == (cancel = "sending") ~> (cancel = "done")

RECURSIVE ConfigAfter(_, _)
ConfigAfter(opts, opt) ==
    IF opts = <<>> THEN opt
    ELSE LET o == Head(opts)
             next == CASE o.kind = "WithWindowFrameThreshold" -> [opt EXCEPT !.windowFrame = o.arg]
                       [] o.kind = "WithWindowRollThreshold" -> [opt EXCEPT !.windowRoll = o.arg]
                       [] o.kind = "WithHalfOpenThreshold" -> [opt EXCEPT !.halfOpenThreshold = o.arg]
                       [] o.kind = "WithCanTrip" -> [opt EXCEPT !.canTrip = o.arg]
                       [] o.kind = "WithFromHalfOpenToState" -> [opt EXCEPT !.fromHalfOpenToState = o.arg]
         IN  ConfigAfter(Tail(opts), next)

InvalidConfig(f) ==
    \/ f.windowFrame <= 0 \/ f.windowRoll <= 0 \/ f.halfOpenThreshold <= 0
    \/ f.canTrip = 0 \/ f.fromHalfOpenToState = 0
    \/ f.windowFrame > f.windowRoll

NothingBuilt == state = "none" /\ cancel = "none" /\ rot = "none" /\ window = <<>>

\* C22: New fails with ErrNewCircuitBreaker, returning no breaker and no
\* teardown and starting no background task, exactly when the configuration
\* that results from applying the options in order has windowFrame <= 0,
\* windowRoll <= 0, halfOpenTimeout <= 0, a nil callback, or
\* windowFrame > windowRoll; in every other case it succeeds.
C22_FailsIffFinalConfigInvalid ==
    done.did # "nothing"
        => /\ done.did = "failed" <=> InvalidConfig(ConfigAfter(cfg.opts, defaultOptions))
           /\ done.did = "failed" => done.ret = "ErrNewCircuitBreaker" /\ NothingBuilt
           /\ done.did = "constructed" => done.ret = "nil" /\ state = Closed /\ rot = "wait"

\* C22 as amended: New fails exactly when some option of the list carries an
\* invalid argument (a threshold <= 0 or a nil callback), also when a later
\* option of the same kind carries a valid one, or when windowFrame >
\* windowRoll after all the options.
C22_FailsIffSomeOptionInvalid ==
    done.did # "nothing"
        => /\ done.did = "failed"
                <=> \/ \E i \in 1..Len(cfg.opts) :
                          cfg.opts[i].arg <= 0
                    \/ LET f == ConfigAfter(cfg.opts, defaultOptions)
                       IN  f.windowFrame > f.windowRoll
           /\ done.did = "failed" => done.ret = "ErrNewCircuitBreaker" /\ NothingBuilt
           /\ done.did = "constructed" => done.ret = "nil" /\ state = Closed /\ rot = "wait"

\* C22 witness: New has failed on an option that a later option overrides
\* with a valid value.
C22_Witness ==
    /\ done.did = "failed" /\ NothingBuilt
    /\ ~InvalidConfig(ConfigAfter(cfg.opts, defaultOptions))

C24_RotationEvictsOldestAppendsEmpty ==
    /\ [][rot = "unshift" /\ rot' # rot
            => /\ Len(window) + 1 > cfg.frames
               /\ rotFrame' = Head(window)
               /\ window' = Tail(window)
               /\ summary' = summary]_vars
    /\ [][rot = "decr" /\ rot' # rot
            => summary' = SubCounts(summary, rotFrame) /\ window' = window]_vars
    /\ [][rot = "add" /\ rot' # rot
            => /\ window' = window \o <<Zero>>
               /\ summary' = summary
               /\ rot' = "wait"]_vars

\* C24 witness: a rotation has evicted a bucket that held outcomes, has
\* subtracted it from the Summary, and is about to append the new bucket,
\* with an older bucket that holds outcomes still in the window behind it.
C24_Witness ==
    /\ rot = "add" /\ rotFrame.Total > 0
    /\ window # <<>> /\ Head(window).Total > 0

\* C26: for every Counts with Fail <= Total, the default trip policy returns
\* true exactly when Total > 10 and Fail * 100 >= 60 * Total; in particular
\* it returns false for Total = 0.
C26_DefaultTripsOverTenAtSixtyPercent ==
    done.did = "canTrip"
        => /\ done.ret = "true"
                <=> (summary.Total > 10 /\ summary.Fail * 100 >= 60 * summary.Total)
           /\ summary.Total = 0 => done.ret = "false"

\* C26 witness: the policy has returned true for Counts whose failure ratio
\* is exactly 60 percent.
C26_Witness ==
    /\ done.did = "canTrip" /\ done.ret = "true"
    /\ summary.Fail * 100 = 60 * summary.Total

\* C27: the default recovery policy returns Open when the Counts hold a
\* failure, Closed when they hold a success and no failure, and HalfOpen
\* otherwise.
C27_DefaultClosesOnCleanSuccess ==
    done.did = "fromHalfOpenToState"
        => done.ret = IF summary.Fail > 0 THEN Open
                      ELSE IF summary.Success > 0 THEN Closed
                      ELSE HalfOpen

\* C25: when afterExecute finds the breaker Half-Open and the recovery policy
\* returns HalfOpen for the newest bucket, the step leaves the breaker
\* Half-Open, arms no timer and changes neither the window nor the Summary;
\* Execute returns.
C25_StaysHalfOpenWithoutArming ==
    [][\A c \in Callers :
          /\ pc[c] = "after" /\ pc'[c] # "after"
          /\ state = HalfOpen /\ window # <<>>
          /\ FromHalfOpenToState(cfg.fromHalfOpenToState, Last(window)) = HalfOpen
          => /\ state' = HalfOpen
             /\ timers' = timers
             /\ onHalfOpenTimeout' = onHalfOpenTimeout
             /\ window' = window
             /\ summary' = summary
             /\ pc'[c] = "idle"]_vars

\* C25 witness: a probe admitted in Half-Open has succeeded and returned, its
\* outcome is in the newest bucket, the breaker is still Half-Open and no
\* timer exists.
C25_Witness ==
    /\ done.seen = HalfOpen /\ done.adm = "admitted" /\ done.ret = "nil"
    /\ done.did = "nothing"
    /\ state = HalfOpen
    /\ window # <<>> /\ Last(window).Success > 0
    /\ timers = [spawned |-> 0, waiting |-> 0, fired |-> 0]

\* C28: when Half-Open resolves to Closed the probe bucket is removed and its
\* Counts are added to the newest bucket from before the trip, the Summary
\* is not changed, and the window gets back the length it had before
\* Half-Open was entered: from the entry into Half-Open until the merge only
\* the removal of the probe bucket changes the length of the window.
C28_ClosingMergesIntoPreTripBucket ==
    [][/\ state = HalfOpen /\ state' = HalfOpen => Len(window') = Len(window)
       /\ \A c \in Callers :
            /\ pc[c] = "after" /\ pc'[c] = "aggregate"
                   => window' = Front(window) /\ summary' = summary
            /\ pc[c] = "aggregate" /\ pc'[c] = "aggregate"
                   => Len(window') = Len(window)
            /\ pc[c] = "aggregate" /\ pc'[c] = "idle"
                   => /\ window # <<>>
                      /\ window' = Front(window)
                             \o <<AddCounts(Last(window), popped[c])>>
                      /\ summary' = summary
                      /\ state' = Closed]_vars

\* C29: the bucket fromHalfOpenToState is given holds only outcomes of calls
\* admitted while Half-Open: the newest bucket is empty when Half-Open is
\* entered, stays the newest while the breaker is Half-Open, and every
\* outcome recorded while Half-Open is that of a call admitted in Half-Open.
C29_PolicySeesOnlyProbeOutcomes ==
    [][/\ state # HalfOpen /\ state' = HalfOpen => Last(window') = Zero
       /\ state = HalfOpen /\ state' = HalfOpen => Len(window') = Len(window)
       /\ \A c \in Callers :
            /\ pc[c] \in {"fn", "recover"} /\ pc'[c] # pc[c]
            /\ state = HalfOpen /\ window' # window
            => seen[c] = HalfOpen]_vars

\* C30: a recording step (incrSuccess, incrFail, or the recover handler's
\* incrFail) adds the same one outcome to the newest bucket and to the
\* Summary in one step and changes neither an older bucket nor the length of
\* the window, whatever the rotation task is doing; on an empty window it
\* changes nothing.
C30_RecordingTouchesNewestBucketAndSummary ==
    [][\A c \in Callers :
          pc[c] \in {"fn", "recover"} /\ pc'[c] # pc[c]
          => IF window = <<>>
             THEN window' = window /\ summary' = summary
             ELSE LET d == IF pc[c] = "fn" /\ ret'[c] = "nil"
                           THEN Counts(1, 0, 1) ELSE Counts(1, 1, 0)
                  IN  /\ Len(window') = Len(window)
                      /\ Front(window') = Front(window)
                      /\ Last(window') = AddCounts(Last(window), d)
                      /\ summary' = AddCounts(summary, d)]_vars

\* C30 witness: a call has recorded a success while the rotation task is
\* between evicting the oldest bucket and appending the new one.
C30_Witness ==
    \E c \in Callers :
        /\ pc[c] = "after" /\ adm[c] = "admitted" /\ ret[c] = "nil"
        /\ rot \in {"decr", "add"}
        /\ window # <<>> /\ Len(window) < cfg.frames
        /\ Last(window).Success > 0

\* C31: the window is never empty: in every reachable state, between the
\* steps of a rotation and after a probe bucket was popped included, a newest
\* bucket exists.
C31_WindowNeverEmpty == window # <<>>

\* C32: the state changes only along Closed -> Open, Open -> Half-Open,
\* Half-Open -> Open and Half-Open -> Closed; Half-Open is entered only from
\* Open, by a recovery timer firing, and Open is left only that way.
C32_OnlyFourEdges ==
    [][state' # state
          => /\ <<state, state'>> \in {<<Closed, Open>>, <<Open, HalfOpen>>,
                                       <<HalfOpen, Open>>, <<HalfOpen, Closed>>}
             /\ state' = HalfOpen => state = Open /\ timers'.fired = timers.fired + 1
             /\ state = Open => state' = HalfOpen /\ timers'.fired = timers.fired + 1
             /\ timers'.fired > timers.fired => state = Open]_vars

\* C32 witness: the breaker has tripped, become Half-Open, been sent back to
\* Open by a failed probe and become Half-Open again by the next timer.
C32_Witness ==
    /\ state = HalfOpen
    /\ done.did = "reopened" /\ done.adm = "admitted" /\ done.seen = HalfOpen

\* C33: no step of a call that the admission check rejected changes the
\* state, the timers, the window or the Summary, whatever the state has
\* become by the time its deferred afterExecute runs.
C33_RejectedCallHasNoEffect ==
    [][\A c \in Callers :
          adm[c] = "rejected" /\ pc'[c] # pc[c]
              => /\ state' = state
                 /\ timers' = timers
                 /\ window' = window
                 /\ summary' = summary]_vars

\* C34: every admitted call records exactly one outcome in the step that
\* ends its operation, whatever the state is by then, and the Summary's Total
\* changes in no other way than by such a recording, by the eviction of a
\* bucket by the rotation or by the discard of the probe bucket on Half-Open
\* to Open: admitted calls = Summary.Total + evicted + discarded.
C34_EveryAdmittedCallCountedOnce ==
    /\ [][\A c \in Callers :
            pc[c] = "fn" /\ pc'[c] # "fn"
                => /\ pc'[c] = "after"
                   /\ summary'.Total = summary.Total + 1
                   /\ SumCounts(window').Total = SumCounts(window).Total + 1]_vars
    /\ [][summary'.Total # summary.Total
            => \/ \E c \in Callers : pc[c] = "fn" /\ pc'[c] = "after"
               \/ /\ rot = "decr" /\ rot' # rot
                  /\ summary' = SubCounts(summary, rotFrame)
               \/ \E c \in Callers :
                     /\ pc[c] = "popWindow" /\ pc'[c] = "idle"
                     /\ summary' = SubCounts(summary, popped[c])]_vars

\* C36: no counter of the Summary or of a bucket wraps below zero (none ever
\* exceeds the number of calls made): the Summary decreases only when the
\* rotation subtracts the bucket it evicted or a call subtracts the probe
\* bucket it popped on Half-Open to Open, once for each, and what is
\* subtracted is field by field at most what the Summary holds.
C36_NoCounterWraps ==
    /\ [](\A i \in 1..Len(AllCounts) :
             /\ AllCounts[i].Total <= calls
             /\ AllCounts[i].Fail <= calls
             /\ AllCounts[i].Success <= calls)
    /\ [][rot = "decr" /\ rot' # rot
            => /\ rotFrame.Total <= summary.Total
               /\ rotFrame.Fail <= summary.Fail
               /\ rotFrame.Success <= summary.Success
               /\ rot' = "add"]_vars
    /\ [][\A c \in Callers :
            pc[c] = "popWindow" /\ pc'[c] # pc[c]
                => /\ popped[c].Total <= summary.Total
                   /\ popped[c].Fail <= summary.Fail
                   /\ popped[c].Success <= summary.Success
                   /\ pc'[c] = "idle"]_vars
    /\ [][summary' # summary /\ summary'.Total <= summary.Total
            => \/ rot = "decr" /\ rot' # rot
               \/ \E c \in Callers : pc[c] = "popWindow" /\ pc'[c] # pc[c]]_vars

\* C36 witness: the probe bucket holding a call's failure has been discarded
\* and subtracted on the return to Open,
\* and the rotation has evicted and subtracted a bucket that held outcomes.
C36_Witness ==
    /\ done.did = "reopened" /\ done.adm = "admitted" /\ done.ret = "errCall"
    /\ rot = "add" /\ rotFrame.Total > 0

====
